---- MODULE Spec2Model ----
(***************************************************************************)
(* Altbox: placeholder-image worker (src/src/index.ts, src/src/util.ts).   *)
(*                                                                         *)
(* JavaScript strings are modelled as sequences of one-character strings,  *)
(* so that trim, toLowerCase, the regular expressions, split/join and      *)
(* escapeXML are computed character by character.  A value that is not a   *)
(* string (null, undefined, a thrown error, an object inherited from       *)
(* Object.prototype) is a tagged record.                                   *)
(***************************************************************************)
EXTENDS Integers, Sequences, FiniteSets, TLC

VARIABLES call, req, resp, prev, handlers

vars == <<call, req, resp, prev, handlers>>

(***************************************************************************)
(* Bounds of the explored input space.                                     *)
(***************************************************************************)
MaxDigits == 5
MaxScaleLen == 3
MaxHexLen == 6
MaxArgLen == 3
MaxTextLen == 7
MaxWrapWidth == 6
MaxFontSize == 2
MaxLinesBound == 3
MaxStroke == 2
MaxSessionStroke == 1
MaxHandlers == 2

(***************************************************************************)
(* String primitives.                                                      *)
(***************************************************************************)
NULL == <<"<null>">>

Digits == {"0", "1", "2", "3", "4", "5", "6", "7", "8", "9"}

WhiteSpace == {" "}

DigitVal(c) ==
  CASE c = "0" -> 0 [] c = "1" -> 1 [] c = "2" -> 2 [] c = "3" -> 3
    [] c = "4" -> 4 [] c = "5" -> 5 [] c = "6" -> 6 [] c = "7" -> 7
    [] c = "8" -> 8 [] c = "9" -> 9

Slice(s, from, to) == SubSeq(s, from + 1, to)

TrimStart(s) ==
  LET leading ==
        IF \A i \in 1..Len(s) : s[i] \in WhiteSpace THEN Len(s)
        ELSE (CHOOSE i \in 1..Len(s) :
                s[i] \notin WhiteSpace /\ \A j \in 1..(i - 1) : s[j] \in WhiteSpace) - 1
  IN  SubSeq(s, leading + 1, Len(s))

TrimEnd(s) ==
  LET trailing ==
        IF \A i \in 1..Len(s) : s[i] \in WhiteSpace THEN Len(s)
        ELSE Len(s) - (CHOOSE i \in 1..Len(s) :
                         s[i] \notin WhiteSpace /\ \A j \in (i + 1)..Len(s) : s[j] \in WhiteSpace)
  IN  SubSeq(s, 1, Len(s) - trailing)

Trim(s) == TrimEnd(TrimStart(s))

AllDigits(s) == \A i \in 1..Len(s) : s[i] \in Digits

RECURSIVE DecimalValue(_)
DecimalValue(s) ==
  IF s = <<>> THEN 0
  ELSE 10 * DecimalValue(SubSeq(s, 1, Len(s) - 1)) + DigitVal(s[Len(s)])

\* Number of leading decimal digits of s.
RECURSIVE DigitPrefixLen(_)
DigitPrefixLen(s) ==
  IF s # <<>> /\ Head(s) \in Digits THEN 1 + DigitPrefixLen(Tail(s)) ELSE 0

NaN == [nan |-> TRUE, val |-> 0]

Num(n) == [nan |-> FALSE, val |-> n]

\* parseInt(value, 10): leading white space, an optional sign, then the
\* longest run of decimal digits; NaN when that run is empty.
parseInt10(value) ==
  LET digits(s, body, n) ==
        IF n = 0 THEN NaN
        ELSE IF Head(s) = "-" THEN Num(0 - DecimalValue(SubSeq(body, 1, n)))
        ELSE Num(DecimalValue(SubSeq(body, 1, n)))
      unsigned(s, body) == digits(s, body, DigitPrefixLen(body))
      trimmed(s) == unsigned(s, IF s # <<>> /\ Head(s) \in {"+", "-"} THEN Tail(s) ELSE s)
  IN  trimmed(TrimStart(value))

(***************************************************************************)
(* util.ts: parseDims                                                      *)
(***************************************************************************)
MIN_DIMENSION == 1
MAX_DIMENSION == 8000

Min(a, b) == IF a < b THEN a ELSE b

Max(a, b) == IF a > b THEN a ELSE b

clamp(value, min, max) == Min(Max(value, min), max)

\* /^(\d{1,4})x(\d{1,4})$/ : the length of the first group, or 0 when the
\* string does not match.
DimsMatch(s) ==
  LET n == DigitPrefixLen(s)
      rest == SubSeq(s, n + 2, Len(s))
  IN  IF /\ n \in 1..4
         /\ Len(s) > n
         /\ s[n + 1] = "x"
         /\ Len(rest) \in 1..4
         /\ AllDigits(rest)
      THEN n ELSE 0

Thrown(message) == [kind |-> "throw", message |-> message, width |-> 0, height |-> 0]

\* parseDims with the upper clamp left out.
parseDimsUnclamped(value) ==
  LET sized(n, width, height) ==
        IF n = 0 THEN Thrown("Invalid dimensions")
        ELSE [kind |-> "ok", message |-> "", width |-> width, height |-> height]
      matched(trimmed, n) ==
        sized(n, Max(DecimalValue(SubSeq(trimmed, 1, n)), MIN_DIMENSION),
              Max(DecimalValue(SubSeq(trimmed, n + 2, Len(trimmed))), MIN_DIMENSION))
      tested(trimmed) == matched(trimmed, DimsMatch(trimmed))
  IN  tested(Trim(value))

parseDims(value) ==
  LET sized(n, width, height) ==
        IF n = 0 THEN Thrown("Invalid dimensions")
        ELSE IF width < MIN_DIMENSION \/ height < MIN_DIMENSION
          THEN Thrown("Invalid dimensions")
        ELSE [kind |-> "ok", message |-> "", width |-> width, height |-> height]
      matched(trimmed, n) ==
        sized(n, clamp(DecimalValue(SubSeq(trimmed, 1, n)), MIN_DIMENSION, MAX_DIMENSION),
              clamp(DecimalValue(SubSeq(trimmed, n + 2, Len(trimmed))),
                    MIN_DIMENSION, MAX_DIMENSION))
      tested(trimmed) == matched(trimmed, DimsMatch(trimmed))
  IN  tested(Trim(value))

(***************************************************************************)
(* index.ts: parseScale                                                    *)
(***************************************************************************)
\* parseScale as a numeric clamp into [1, 2].
parseScaleClamped(raw) ==
  IF raw = NULL \/ raw = <<>> THEN 1
  ELSE LET numeric == parseInt10(raw)
       IN  IF numeric.nan THEN 1 ELSE clamp(numeric.val, 1, 2)

parseScale(raw) ==
  IF raw = NULL \/ raw = <<>> THEN 1
  ELSE LET numeric == parseInt10(raw)
       IN  IF numeric.nan THEN 1
           ELSE IF numeric.val = 2 THEN 2 ELSE 1

(***************************************************************************)
(* More string primitives.                                                 *)
(***************************************************************************)
Lower(c) ==
  LET upper == <<"A", "B", "C", "D", "E", "F", "G", "H", "I", "J", "K", "L", "M", "N", "O", "P", "Q", "R", "S", "T", "U", "V", "W", "X", "Y", "Z">>
      lower == <<"a", "b", "c", "d", "e", "f", "g", "h", "i", "j", "k", "l", "m", "n", "o", "p", "q", "r", "s", "t", "u", "v", "w", "x", "y", "z">>
  IN  IF \E i \in 1..26 : upper[i] = c
        THEN lower[CHOOSE i \in 1..26 : upper[i] = c]
        ELSE c

toLowerCase(s) == [i \in 1..Len(s) |-> Lower(s[i])]

startsWith(s, prefix) ==
  Len(s) >= Len(prefix) /\ SubSeq(s, 1, Len(prefix)) = prefix

endsWith(s, c) == s # <<>> /\ s[Len(s)] = c

\* s.split(c) for a one-character separator c.
RECURSIVE split(_, _)
split(s, c) ==
  IF \E i \in 1..Len(s) : s[i] = c
    THEN LET i == CHOOSE j \in 1..Len(s) : s[j] = c /\ \A k \in 1..(j - 1) : s[k] # c
         IN  <<SubSeq(s, 1, i - 1)>> \o split(SubSeq(s, i + 1, Len(s)), c)
    ELSE <<s>>

RECURSIVE join(_, _)
join(parts, sep) ==
  IF parts = <<>> THEN <<>>
  ELSE IF Len(parts) = 1 THEN parts[1]
  ELSE LET half == Len(parts) \div 2
       IN  join(SubSeq(parts, 1, half), sep) \o sep
             \o join(SubSeq(parts, half + 1, Len(parts)), sep)

trimEach(parts) == [i \in 1..Len(parts) |-> Trim(parts[i])]

(***************************************************************************)
(* Values: a string, a thrown Error, or one of the two objects that every  *)
(* object literal inherits under an all-lowercase key ('constructor' is    *)
(* the function Object, '__proto__' is Object.prototype).                  *)
(***************************************************************************)
Str(s) == [kind |-> "string", val |-> s, message |-> ""]

Throw(message) == [kind |-> "throw", val |-> <<>>, message |-> message]

ObjectFunction == [kind |-> "function", val |-> <<>>, message |-> ""]

ObjectPrototype == [kind |-> "object", val |-> <<>>, message |-> ""]

Undefined == [kind |-> "undefined", val |-> <<>>, message |-> ""]

(***************************************************************************)
(* colors.ts: the named-color table (the entries the requests here use).   *)
(***************************************************************************)
CSS_COLORS ==
  (<<"r", "e", "d">> :> <<"#", "f", "f", "0", "0", "0", "0">>)
    @@ (<<"y", "e", "l", "l", "o", "w">> :> <<"#", "f", "f", "f", "f", "0", "0">>)
    @@ (<<"w", "h", "i", "t", "e">> :> <<"#", "f", "f", "f", "f", "f", "f">>)
    @@ (<<"b", "l", "a", "c", "k">> :> <<"#", "0", "0", "0", "0", "0", "0">>)
    @@ (<<"n", "a", "v", "y">> :> <<"#", "0", "0", "0", "0", "8", "0">>)

\* The all-lowercase property names an object literal inherits.
InheritedKeys == {<<"c", "o", "n", "s", "t", "r", "u", "c", "t", "o", "r">>, <<"_", "_", "p", "r", "o", "t", "o", "_", "_">>}

\* key in CSS_COLORS
InColors(key) == key \in DOMAIN CSS_COLORS \/ key \in InheritedKeys

\* CSS_COLORS[key], for a key that is in CSS_COLORS
ColorsGet(key) ==
  IF key \in DOMAIN CSS_COLORS THEN Str(CSS_COLORS[key])
  ELSE IF key = <<"c", "o", "n", "s", "t", "r", "u", "c", "t", "o", "r">> THEN ObjectFunction
  ELSE ObjectPrototype

(***************************************************************************)
(* util.ts: parseColor                                                     *)
(***************************************************************************)
LowerHexDigits == Digits \cup {"a", "b", "c", "d", "e", "f"}

\* /^#([0-9a-f]{3}|[0-9a-f]{6})$/
HexMatch(s) ==
  /\ Len(s) \in {4, 7}
  /\ s[1] = "#"
  /\ \A i \in 2..Len(s) : s[i] \in LowerHexDigits

NoMatch == <<"<no match>">>

\* /^NAMEa?\(\s*([^)]+)\s*\)$/ : the captured group, or NoMatch.  The first
\* \s* takes the leading white space, the group takes all the rest up to the
\* final parenthesis; when there is nothing but white space the group keeps
\* its last character.
FunctionalMatch(name, s) ==
  LET open == IF startsWith(s, name \o <<"a", "(">>) THEN Len(name) + 2
              ELSE IF startsWith(s, name \o <<"(">>) THEN Len(name) + 1
              ELSE 0
      inner == SubSeq(s, open + 1, Len(s) - 1)
      rest == TrimStart(inner)
  IN  IF /\ open > 0
         /\ Len(s) >= open + 2
         /\ s[Len(s)] = ")"
         /\ \A i \in 1..Len(inner) : inner[i] # ")"
      THEN IF rest = <<>> THEN <<inner[Len(inner)]>> ELSE rest
      ELSE NoMatch

\* value.split('').map((char) => char + char).join('')
doubleEach(value) == [i \in 1..(2 * Len(value)) |-> value[(i + 1) \div 2]]

normalizeComponents(group) == join(trimEach(split(group, ",")), <<",", " ">>)

parseColor(input) ==
  LET functional(name, withAlpha, group) ==
        IF withAlpha
          THEN Str(name \o <<"a", "(">> \o normalizeComponents(group) \o <<")">>)
          ELSE Str(name \o <<"(">> \o normalizeComponents(group) \o <<")">>)
      matched(normalized, rgbMatch, hslMatch) ==
        IF normalized = <<>> THEN Throw("Invalid color")
        ELSE IF normalized = <<"t">> \/ normalized = <<"t", "r", "a", "n", "s", "p", "a", "r", "e", "n", "t">>
          THEN Str(<<"t", "r", "a", "n", "s", "p", "a", "r", "e", "n", "t">>)
        ELSE IF InColors(normalized) THEN ColorsGet(normalized)
        ELSE IF HexMatch(normalized)
          THEN IF Len(normalized) = 4
                 THEN Str(<<"#">> \o doubleEach(Tail(normalized)))
                 ELSE Str(normalized)
        ELSE IF rgbMatch # NoMatch
          THEN functional(<<"r", "g", "b">>,
                          startsWith(normalized, <<"r", "g", "b", "a">>), rgbMatch)
        ELSE IF hslMatch # NoMatch
          THEN functional(<<"h", "s", "l">>,
                          startsWith(normalized, <<"h", "s", "l", "a">>), hslMatch)
        ELSE Throw("Invalid color")
      tested(normalized) ==
        matched(normalized, FunctionalMatch(<<"r", "g", "b">>, normalized),
                FunctionalMatch(<<"h", "s", "l">>, normalized))
  IN  tested(toLowerCase(Trim(input)))

(***************************************************************************)
(* util.ts: autoContrast, colorToRgb and the conversions under them.       *)
(*                                                                         *)
(* Numbers read by parseFloat are decimal fractions n/d (d a power of      *)
(* ten); the grammar modelled is sign, digits, point, digits, which is the *)
(* whole grammar for the characters the inputs here are made of.           *)
(***************************************************************************)
FloatNaN == [nan |-> TRUE, n |-> 0, d |-> 1]

RECURSIVE PowerOfTen(_)
PowerOfTen(k) == IF k = 0 THEN 1 ELSE 10 * PowerOfTen(k - 1)

\* parseFloat(value) for decimal notation: leading white space, an optional
\* sign, digits, an optional point and digits; the value is the fraction n/d.
parseFloat(value) ==
  LET fraction(s, body, i, f) ==
        IF i = 0 /\ f = 0 THEN FloatNaN
        ELSE [nan |-> FALSE,
              n |-> (IF Head(s) = "-" THEN 0 - 1 ELSE 1)
                      * (DecimalValue(SubSeq(body, 1, i)) * PowerOfTen(f)
                           + DecimalValue(SubSeq(body, i + 2, i + 1 + f))),
              d |-> PowerOfTen(f)]
      point(s, body, i, afterInt) ==
        fraction(s, body, i,
                 IF afterInt # <<>> /\ Head(afterInt) = "."
                   THEN DigitPrefixLen(Tail(afterInt)) ELSE 0)
      digits(s, body, i) == point(s, body, i, SubSeq(body, i + 1, Len(body)))
      unsigned(s, body) == digits(s, body, DigitPrefixLen(body))
      trimmed(s) == unsigned(s, IF s # <<>> /\ Head(s) \in {"+", "-"} THEN Tail(s) ELSE s)
  IN  trimmed(TrimStart(value))

\* Math.round of the fraction n/d (d > 0): halves go up.
RoundFraction(n, d) == (2 * n + d) \div (2 * d)

Null == [null |-> TRUE, val |-> 0]

Some(v) == [null |-> FALSE, val |-> v]

parseRgbPart(value) ==
  LET percentage(percent) ==
        IF percent.nan THEN Null
        ELSE Some(clamp(RoundFraction(percent.n * 255, percent.d * 100), 0, 255))
      integer(numeric) ==
        IF numeric.nan THEN Null ELSE Some(clamp(numeric.val, 0, 255))
  IN  IF endsWith(value, "%")
        THEN percentage(parseFloat(SubSeq(value, 1, Len(value) - 1)))
        ELSE integer(parseInt10(value))

\* The result is in hundredths (0..100 stands for 0..1); the percentages of
\* the inputs are whole numbers.
parsePercentage(value) ==
  LET percentage(numeric) ==
        IF numeric.nan THEN NaN
        ELSE Num(clamp(numeric.n \div numeric.d, 0, 100))
  IN  IF ~endsWith(value, "%") THEN NaN
      ELSE percentage(parseFloat(SubSeq(value, 1, Len(value) - 1)))

\* p and q are in ten-thousandths, t in degrees (t/360 of a turn); the
\* result is in units of 1/600000.
hueToRgb(p, q, t) ==
  LET up == IF t < 0 THEN t + 360 ELSE t
      temp == IF up > 360 THEN up - 360 ELSE up
  IN  IF temp < 60 THEN 60 * p + (q - p) * temp
      ELSE IF temp < 180 THEN 60 * q
      ELSE IF temp < 240 THEN 60 * p + (q - p) * (240 - temp)
      ELSE 60 * p

\* hDegrees in whole degrees, s and l in hundredths.
hslToRgb(hDegrees, s, l) ==
  LET h == ((hDegrees % 360) + 360) % 360
      gray == RoundFraction(l * 255, 100)
      q == IF l < 50 THEN l * (100 + s) ELSE 100 * l + 100 * s - l * s
      p == 200 * l - q
      r == hueToRgb(p, q, h + 120)
      g == hueToRgb(p, q, h)
      b == hueToRgb(p, q, h - 120)
  IN  IF s = 0 THEN <<gray, gray, gray>>
      ELSE <<RoundFraction(r * 255, 600000),
             RoundFraction(g * 255, 600000),
             RoundFraction(b * 255, 600000)>>

HexVal(c) ==
  CASE c \in Digits -> DigitVal(c)
    [] c = "a" -> 10 [] c = "b" -> 11 [] c = "c" -> 12
    [] c = "d" -> 13 [] c = "e" -> 14 [] c = "f" -> 15

\* normalizeHex applied to a value: a string is matched against
\* /^#([0-9a-f]{3}|[0-9a-f]{6})$/i, anything else is first converted to a
\* string that never matches.
normalizeHex(value) ==
  IF value.kind = "string" /\ HexMatch(toLowerCase(value.val))
    THEN IF Len(value.val) = 4
           THEN Str(<<"#">> \o doubleEach(Tail(toLowerCase(value.val))))
           ELSE Str(toLowerCase(value.val))
    ELSE Throw("Invalid hex color")

\* A triplet, null, or the error thrown on the way.
Rgb(triplet) == [kind |-> "rgb", rgb |-> triplet, message |-> ""]

RgbNull == [kind |-> "null", rgb |-> <<>>, message |-> ""]

RgbThrow(message) == [kind |-> "throw", rgb |-> <<>>, message |-> message]

hexToRgb(hex) ==
  LET channels(normalized, v) ==
        IF normalized.kind = "throw" THEN RgbThrow(normalized.message)
        ELSE Rgb(<<16 * HexVal(v[2]) + HexVal(v[3]),
                   16 * HexVal(v[4]) + HexVal(v[5]),
                   16 * HexVal(v[6]) + HexVal(v[7])>>)
      matched(normalized) == channels(normalized, normalized.val)
  IN  matched(normalizeHex(hex))

colorToRgb(color) ==
  LET fromRgb(rgbParts) ==
        LET channels(rgb) ==
              IF \E i \in 1..3 : rgb[i].null THEN RgbNull
              ELSE Rgb(<<rgb[1].val, rgb[2].val, rgb[3].val>>)
        IN  IF Len(rgbParts) < 3 THEN RgbNull
            ELSE channels([i \in 1..3 |-> parseRgbPart(rgbParts[i])])
      fromHsl(hslParts) ==
        LET components(h, s, l) ==
              IF h.nan \/ s.nan \/ l.nan THEN RgbNull
              ELSE Rgb(hslToRgb(h.n \div h.d, s.val, l.val))
        IN  IF Len(hslParts) < 3 THEN RgbNull
            ELSE components(parseFloat(hslParts[1]), parsePercentage(hslParts[2]),
                            parsePercentage(hslParts[3]))
      matched(trimmed, rgbMatch, hslMatch) ==
        IF trimmed = <<"t", "r", "a", "n", "s", "p", "a", "r", "e", "n", "t">> THEN RgbNull
        ELSE IF HexMatch(trimmed) THEN hexToRgb(Str(trimmed))
        ELSE IF rgbMatch # NoMatch THEN fromRgb(trimEach(split(rgbMatch, ",")))
        ELSE IF hslMatch # NoMatch THEN fromHsl(trimEach(split(hslMatch, ",")))
        ELSE IF InColors(trimmed) THEN hexToRgb(ColorsGet(trimmed))
        ELSE RgbNull
      normalized(trimmed) ==
        matched(trimmed, FunctionalMatch(<<"r", "g", "b">>, trimmed),
                FunctionalMatch(<<"h", "s", "l">>, trimmed))
  IN  normalized(toLowerCase(Trim(color)))

\* The linearized channel, (c/255)/12.92 or ((c/255 + 0.055)/1.055)^2.4,
\* in units of 1e-7, for c = 0..255.
Linearized ==
  <<0, 3035, 6071, 9106, 12141, 15176, 18212, 21247,
    24282, 27317, 30353, 33465, 36765, 40247, 43914, 47770,
    51815, 56054, 60488, 65121, 69954, 74990, 80232, 85681,
    91341, 97212, 103298, 109601, 116122, 122865, 129830, 137021,
    144438, 152085, 159963, 168074, 176420, 185002, 193824, 202886,
    212190, 221739, 231534, 241576, 251869, 262412, 273209, 284260,
    295568, 307134, 318960, 331048, 343398, 356013, 368895, 382044,
    395462, 409152, 423114, 437350, 451862, 466651, 481718, 497066,
    512695, 528606, 544803, 561285, 578054, 595112, 612461, 630100,
    648033, 666259, 684782, 703601, 722719, 742136, 761854, 781874,
    802198, 822827, 843762, 865005, 886556, 908417, 930590, 953075,
    975873, 998987, 1022417, 1046165, 1070231, 1094617, 1119324, 1144354,
    1169707, 1195384, 1221388, 1247718, 1274377, 1301365, 1328683, 1356333,
    1384316, 1412633, 1441285, 1470273, 1499598, 1529262, 1559265, 1589608,
    1620294, 1651322, 1682694, 1714411, 1746474, 1778884, 1811642, 1844750,
    1878208, 1912017, 1946178, 1980693, 2015563, 2050787, 2086369, 2122308,
    2158605, 2195262, 2232280, 2269659, 2307400, 2345506, 2383976, 2422811,
    2462013, 2501583, 2541521, 2581829, 2622507, 2663556, 2704978, 2746773,
    2788943, 2831487, 2874408, 2917706, 2961383, 3005438, 3049873, 3094689,
    3139887, 3185468, 3231432, 3277781, 3324515, 3371636, 3419144, 3467041,
    3515326, 3564001, 3613068, 3662526, 3712377, 3762621, 3813260, 3864294,
    3915725, 3967552, 4019778, 4072402, 4125426, 4178851, 4232677, 4286905,
    4341536, 4396572, 4452012, 4507858, 4564110, 4620770, 4677838, 4735315,
    4793202, 4851499, 4910208, 4969330, 5028865, 5088813, 5149177, 5209956,
    5271151, 5332764, 5394795, 5457245, 5520114, 5583404, 5647115, 5711248,
    5775804, 5840784, 5906188, 5972018, 6038273, 6104956, 6172066, 6239604,
    6307571, 6375969, 6444797, 6514056, 6583748, 6653873, 6724432, 6795425,
    6866853, 6938718, 7011019, 7083758, 7156935, 7230551, 7304607, 7379104,
    7454042, 7529422, 7605245, 7681511, 7758222, 7835378, 7912979, 7991027,
    8069523, 8148466, 8227858, 8307699, 8387990, 8468732, 8549926, 8631572,
    8713671, 8796224, 8879231, 8962694, 9046612, 9130987, 9215819, 9301109,
    9386857, 9473065, 9559734, 9646862, 9734453, 9822506, 9911021, 10000000>>

\* The luminance in units of 1e-9, with the hundredths of a unit that are
\* left over.
rgbToLuminance(rgb) ==
  LET channels == [i \in 1..3 |-> Linearized[rgb[i] + 1]]
      high == 2126 * (channels[1] \div 100) + 7152 * (channels[2] \div 100)
                + 722 * (channels[3] \div 100)
      low == 2126 * (channels[1] % 100) + 7152 * (channels[2] % 100)
               + 722 * (channels[3] % 100)
  IN  [units |-> high + low \div 100, rest |-> low % 100]

\* luminance > 0.55
Above055(luminance) ==
  \/ luminance.units > 550000000
  \/ luminance.units = 550000000 /\ luminance.rest > 0

autoContrast(bg) ==
  LET contrast(rgb) ==
        IF rgb.kind = "throw" THEN Throw(rgb.message)
        ELSE IF rgb.kind = "null" THEN Str(<<"#", "1", "1", "1", "1", "1", "1">>)
        ELSE IF Above055(rgbToLuminance(rgb.rgb)) THEN Str(<<"#", "1", "1", "1", "1", "1", "1">>)
        ELSE Str(<<"#", "f", "f", "f", "f", "f", "f">>)
  IN  IF bg = Str(<<"t", "r", "a", "n", "s", "p", "a", "r", "e", "n", "t">>) THEN Str(<<"#", "1", "1", "1", "1", "1", "1">>)
      ELSE IF bg.kind # "string" THEN Throw("color.trim is not a function")
      ELSE contrast(colorToRgb(bg.val))

(***************************************************************************)
(* util.ts: wrapText, chunkWord, collapseWithEllipsis                      *)
(***************************************************************************)
\* trimmed.split(/\s+/) of a string without leading or trailing white space
RECURSIVE splitWords(_)
splitWords(s) ==
  IF s = <<>> THEN <<>>
  ELSE IF Head(s) \in WhiteSpace THEN splitWords(Tail(s))
  ELSE LET n == IF \E i \in 1..Len(s) : s[i] \in WhiteSpace
                  THEN (CHOOSE i \in 1..Len(s) :
                          s[i] \in WhiteSpace /\ \A k \in 1..(i - 1) : s[k] \notin WhiteSpace) - 1
                  ELSE Len(s)
       IN  <<SubSeq(s, 1, n)>> \o splitWords(SubSeq(s, n + 1, Len(s)))

\* The slices [0, size), [size, 2 size), ... of word.
chunkWord(word, size) ==
  [i \in 1..((Len(word) + size - 1) \div size) |->
     Slice(word, (i - 1) * size, Min(i * size, Len(word)))]

\* '.'.repeat(n)
Dots(n) == [i \in 1..n |-> "."]

\* collapseWithEllipsis that appends the marker to a full-width slice.
collapseWithEllipsisOverlong(text, maxChars) ==
  IF Len(text) <= maxChars THEN text
  ELSE IF maxChars <= 3 THEN Dots(maxChars)
  ELSE Slice(text, 0, maxChars) \o Dots(3)

collapseWithEllipsis(text, maxChars) ==
  IF Len(text) <= maxChars THEN text
  ELSE IF maxChars <= 3 THEN Dots(maxChars)
  ELSE Slice(text, 0, maxChars - 3) \o Dots(3)

\* lines after pushCurrent()
pushCurrent(lines, current) ==
  IF current # <<>> THEN Append(lines, current) ELSE lines

\* The loop over the words, from the state (lines, current), followed by the
\* final pushCurrent().
RECURSIVE packWords(_, _, _, _)
packWords(words, lines, current, charsPerLine) ==
  IF words = <<>> THEN pushCurrent(lines, current)
  ELSE LET word == Head(words)
           candidate == IF current # <<>> THEN current \o <<" ">> \o word ELSE word
       IN  IF Len(word) > charsPerLine
             THEN packWords(Tail(words),
                            pushCurrent(lines, current) \o chunkWord(word, charsPerLine),
                            <<>>, charsPerLine)
           ELSE IF Len(candidate) <= charsPerLine
             THEN packWords(Tail(words), lines, candidate, charsPerLine)
           ELSE packWords(Tail(words), pushCurrent(lines, current), word, charsPerLine)

\* Math.max(1, Math.floor(maxWidth / (fontSize * 0.6))), for a width and a
\* font size that are whole numbers (the quotient is floor(5w / 3f)).
CharsPerLine(maxWidth, fontSize) == Max(1, (5 * maxWidth) \div (3 * fontSize))

\* wrapText that returns every packed line.
wrapTextUnlimited(options) ==
  LET packed(trimmed, charsPerLine) ==
        IF trimmed = <<>> THEN <<>>
        ELSE IF ~options.wrap THEN <<trimmed>>
        ELSE IF Len(trimmed) <= charsPerLine THEN <<trimmed>>
        ELSE packWords(splitWords(trimmed), <<>>, <<>>, charsPerLine)
  IN  packed(Trim(options.text), CharsPerLine(options.maxWidth, options.fontSize))

wrapText(options) ==
  LET limit(lines, maxLines, charsPerLine) ==
        IF Len(lines) <= maxLines THEN lines
        ELSE [Slice(lines, 0, maxLines) EXCEPT
                ![maxLines] =
                  collapseWithEllipsis(
                    Trim(join(Slice(lines, maxLines - 1, Len(lines)), <<" ">>)),
                    charsPerLine)]
      packed(trimmed, charsPerLine) ==
        IF trimmed = <<>> THEN <<>>
        ELSE IF ~options.wrap THEN <<trimmed>>
        ELSE IF Len(trimmed) <= charsPerLine THEN <<trimmed>>
        ELSE limit(packWords(splitWords(trimmed), <<>>, <<>>, charsPerLine),
                   options.maxLines, charsPerLine)
  IN  packed(Trim(options.text), CharsPerLine(options.maxWidth, options.fontSize))

(***************************************************************************)
(* index.ts: the option parsers of renderSvg.                              *)
(*                                                                         *)
(* A length is a whole number of 1/Unit: with Unit = 300 the defaults      *)
(* min/6, the limits min/2 and min/5, the line height 1.2 * size and the   *)
(* half-line offsets of every option value with at most one decimal are    *)
(* whole, so the arithmetic below is exact.                                *)
(***************************************************************************)
Unit == 300

MAX_TEXT_LENGTH == 120

DEFAULT_BACKGROUND == <<"#", "d", "d", "d", "d", "d", "d">>

IsNull(value) == value = NULL

\* !value for a string | null
Falsy(value) == value = NULL \/ value = <<>>

clampText(value) ==
  IF value = <<>> THEN <<>>
  ELSE IF Len(value) <= MAX_TEXT_LENGTH THEN value
  ELSE IF MAX_TEXT_LENGTH <= 3 THEN Dots(MAX_TEXT_LENGTH)
  ELSE Slice(value, 0, MAX_TEXT_LENGTH - 3) \o Dots(3)

\* The number read, in 1/Unit, or NaN.
parseFloatSafe(value) ==
  LET finite(numeric) ==
        IF numeric.nan THEN NaN ELSE Num((numeric.n * Unit) \div numeric.d)
  IN  IF Falsy(value) THEN NaN ELSE finite(parseFloat(value))

\* clampNumber without the upper limit.
clampNumberFromBelow(value, min, max) ==
  IF value.nan THEN min ELSE Max(value.val, min)

clampNumber(value, min, max) ==
  IF value.nan THEN min ELSE Min(Max(value.val, min), max)

parseAlign(value) ==
  LET lowered == IF IsNull(value) THEN <<>> ELSE toLowerCase(value)
  IN  IF lowered = <<"l", "e", "f", "t">> THEN "left"
      ELSE IF lowered = <<"r", "i", "g", "h", "t">> THEN "right"
      ELSE "center"

parseBoolean(value) ==
  IF Falsy(value) THEN FALSE
  ELSE toLowerCase(value) \in {<<"t", "r", "u", "e">>, <<"1">>, <<"y", "e", "s">>}

\* value?.trim() || undefined
trimmedOrUndefined(value) ==
  LET orUndefined(trimmed) == IF trimmed = <<>> THEN Undefined ELSE Str(trimmed)
  IN  IF IsNull(value) THEN Undefined ELSE orUndefined(Trim(value))

(***************************************************************************)
(* svg.ts (second half of index.ts): buildSVG.  The document is the list   *)
(* of the pieces the template literals concatenate: fixed markup, and the  *)
(* interpolated values, each with the place it is written into.            *)
(***************************************************************************)
Markup(text) == [ctx |-> "markup", text |-> text, chars |-> <<>>, num |-> 0]

AttributeValue(chars) == [ctx |-> "attribute", text |-> "", chars |-> chars, num |-> 0]

Content(chars) == [ctx |-> "content", text |-> "", chars |-> chars, num |-> 0]

\* ${n} for a number n (in 1/Unit)
Number(n) == [ctx |-> "number", text |-> "", chars |-> <<>>, num |-> n]

\* String(value), as a template literal writes a value
stringOf(value) ==
  CASE value.kind = "string" -> value.val
    [] value.kind = "function" -> <<"f", "u", "n", "c", "t", "i", "o", "n", " ", "O", "b", "j", "e", "c", "t", "(", ")", " ", "{", " ", "[", "n", "a", "t", "i", "v", "e", " ", "c", "o", "d", "e", "]", " ", "}">>
    [] value.kind = "object" -> <<"[", "o", "b", "j", "e", "c", "t", " ", "O", "b", "j", "e", "c", "t", "]">>
    [] value.kind = "undefined" -> <<"u", "n", "d", "e", "f", "i", "n", "e", "d">>

\* value.replace(/c/g, replacement)
RECURSIVE replaceAll(_, _, _)
replaceAll(value, c, replacement) ==
  IF value = <<>> THEN <<>>
  ELSE IF Len(value) = 1 THEN (IF value[1] = c THEN replacement ELSE value)
  ELSE LET half == Len(value) \div 2
       IN  replaceAll(SubSeq(value, 1, half), c, replacement)
             \o replaceAll(SubSeq(value, half + 1, Len(value)), c, replacement)

escapeXML(value) ==
  replaceAll(
    replaceAll(
      replaceAll(
        replaceAll(
          replaceAll(value, "&", <<"&", "a", "m", "p", ";">>),
          "<", <<"&", "l", "t", ";">>),
        ">", <<"&", "g", "t", ";">>),
      "\"", <<"&", "q", "u", "o", "t", ";">>),
    "'", <<"&", "#", "3", "9", ";">>)

RECURSIVE DecimalString(_)
DecimalString(n) ==
  LET digit(d) == <<"0", "1", "2", "3", "4", "5", "6", "7", "8", "9">>[d + 1]
  IN  IF n < 10 THEN <<digit(n)>>
      ELSE Append(DecimalString(n \div 10), digit(n % 10))

DEFAULT_FONT ==
  <<"s", "y", "s", "t", "e", "m", "-", "u", "i", ",", " ", "-", "a", "p", "p", "l", "e", "-", "s", "y", "s", "t", "e", "m", ",", " ", "B", "l", "i", "n", "k", "M", "a", "c", "S", "y", "s", "t", "e", "m", "F", "o", "n", "t", ",", " ", "\"", "S", "e", "g", "o", "e", " ", "U", "I", "\"", ",", " ", "s", "a", "n", "s", "-", "s", "e", "r", "i", "f">>

alignToAnchor(align) ==
  CASE align = "left" -> "start"
    [] align = "right" -> "end"
    [] OTHER -> "middle"

roundCornerAttr(radius) ==
  IF radius = 0 THEN <<>>
  ELSE <<Markup(" rx=\""), Number(radius), Markup("\" ry=\""), Number(radius), Markup("\"")>>

\* stroke is a value or undefined, strokeWidth a number
strokeAttributes(stroke, strokeWidth) ==
  IF stroke.kind = "undefined" \/ strokeWidth = 0 THEN <<>>
  ELSE <<Markup(" stroke=\""), AttributeValue(stringOf(stroke)),
         Markup("\" stroke-width=\""), Number(strokeWidth), Markup("\"")>>

shadowAttr(shadow) ==
  IF shadow THEN <<Markup(" filter=\"url(#dropShadow)\"")>> ELSE <<>>

buildShadowFilter ==
  <<Markup("<defs><filter id=\"dropShadow\" x=\"-20%\" y=\"-20%\" width=\"140%\" height=\"140%\"><feDropShadow dx=\"0\" dy=\"2\" stdDeviation=\"3\" flood-opacity=\"0.25\"/></filter></defs>")>>

buildRect(o) ==
  <<Markup("<rect width=\""), Number(o.width), Markup("\" height=\""), Number(o.height),
    Markup("\" fill=\""),
    IF o.background = Str(<<"t", "r", "a", "n", "s", "p", "a", "r", "e", "n", "t">>)
      THEN Markup("none")
      ELSE AttributeValue(stringOf(o.background)),
    Markup("\"")>>
    \o roundCornerAttr(o.radius)
    \o strokeAttributes(o.stroke, o.strokeWidth)
    \o shadowAttr(o.shadow)
    \o <<Markup(" />")>>

RECURSIVE tspans(_, _, _, _, _)
tspans(lines, index, x, baseY, lineHeight) ==
  IF index >= Len(lines) THEN <<>>
  ELSE <<Markup("<tspan x=\""), Number(x), Markup("\" y=\""),
         Number(baseY + index * lineHeight), Markup("\">"),
         Content(escapeXML(lines[index + 1])), Markup("</tspan>")>>
         \o tspans(lines, index + 1, x, baseY, lineHeight)

buildText(lines, o) ==
  LET offset == (o.lineHeight * (Len(lines) - 1)) \div 2
      baseY == o.yStart - offset
      weightAttr ==
        IF o.fontWeight.kind = "undefined" THEN <<>>
        ELSE <<Markup(" font-weight=\""), AttributeValue(escapeXML(o.fontWeight.val)),
               Markup("\"")>>
  IN  <<Markup("<text x=\""), Number(o.x), Markup("\" fill=\""),
        AttributeValue(stringOf(o.fill)), Markup("\" text-anchor=\""), Markup(o.anchor),
        Markup("\" font-family=\""), AttributeValue(escapeXML(o.fontFamily)),
        Markup("\" font-size=\""), Number(o.fontSize),
        Markup("\" dominant-baseline=\"middle\"")>>
        \o weightAttr
        \o <<Markup(">")>>
        \o tspans(lines, 0, o.x, baseY, o.lineHeight)
        \o <<Markup("</text>")>>

\* o.text, o.fontFamily, o.fontWeight and o.stroke are values or undefined;
\* o.strokeWidth is 0 where the caller passes undefined (the default).
buildSVG(o) ==
  LET document(scaledWidth, scaledHeight, scaledPad, effectiveFontSize, lines) ==
        LET lineHeight == (effectiveFontSize * 6) \div 5
            textX == IF o.align = "center" THEN (scaledWidth * Unit) \div 2
                     ELSE IF o.align = "left" THEN scaledPad
                     ELSE scaledWidth * Unit - scaledPad
            textElements ==
              IF Len(lines) = 0 THEN <<>>
              ELSE buildText(lines,
                     [x |-> textX, yStart |-> (scaledHeight * Unit) \div 2,
                      lineHeight |-> lineHeight, fill |-> o.foreground,
                      anchor |-> alignToAnchor(o.align),
                      fontFamily |-> IF o.fontFamily.kind = "undefined"
                                       THEN DEFAULT_FONT ELSE o.fontFamily.val,
                      fontSize |-> effectiveFontSize, fontWeight |-> o.fontWeight])
            label == IF o.text.kind = "undefined"
                       THEN DecimalString(o.width) \o <<"x">> \o DecimalString(o.height)
                       ELSE o.text.val
        IN  <<Markup("<svg xmlns=\"http://www.w3.org/2000/svg\" width=\""),
              Number(o.width * Unit), Markup("\" height=\""), Number(o.height * Unit),
              Markup("\" viewBox=\"0 0 "), Number(scaledWidth * Unit), Markup(" "),
              Number(scaledHeight * Unit), Markup("\" role=\"img\" aria-label=\""),
              AttributeValue(escapeXML(label)), Markup("\">")>>
              \o (IF o.shadow THEN buildShadowFilter ELSE <<>>)
              \o buildRect([width |-> scaledWidth * Unit, height |-> scaledHeight * Unit,
                            background |-> o.background, radius |-> o.radius,
                            stroke |-> o.stroke, strokeWidth |-> o.strokeWidth,
                            shadow |-> o.shadow])
              \o textElements
              \o <<Markup("</svg>")>>
      wrapped(scaledWidth, scaledHeight, scaledPad, effectiveFontSize) ==
        document(scaledWidth, scaledHeight, scaledPad, effectiveFontSize,
                 IF o.text.kind = "undefined" THEN <<>>
                 ELSE wrapText([text |-> o.text.val,
                                maxWidth |-> Max(0, scaledWidth * Unit - scaledPad * 2),
                                fontSize |-> effectiveFontSize, wrap |-> o.wrap,
                                maxLines |-> 2]))
      scaled(clampedScale) ==
        wrapped(Max(1, o.width * clampedScale), Max(1, o.height * clampedScale),
                Max(0, o.pad * clampedScale), o.fontSize * clampedScale)
  IN  scaled(Max(1, Min(o.scale, 4)))

(***************************************************************************)
(* index.ts: renderSvg and the fingerprint.                                *)
(***************************************************************************)
\* One "key":value member of the JSON text; JSON.stringify writes a string
\* quoted and escaped, a number or a boolean as it is, an object without
\* own properties as {}.
JsonString(key, chars) ==
  <<[key |-> key, type |-> "string", chars |-> chars, num |-> 0, bool |-> FALSE]>>

JsonNumber(key, n) ==
  <<[key |-> key, type |-> "number", chars |-> <<>>, num |-> n, bool |-> FALSE]>>

JsonBoolean(key, b) ==
  <<[key |-> key, type |-> "boolean", chars |-> <<>>, num |-> 0, bool |-> b]>>

JsonObject(key) ==
  <<[key |-> key, type |-> "object", chars |-> <<>>, num |-> 0, bool |-> FALSE]>>

\* The member JSON.stringify writes for a property holding a value: none
\* at all for undefined and for a function.
JsonMember(key, value) ==
  CASE value.kind = "string" -> JsonString(key, value.val)
    [] value.kind = "object" -> JsonObject(key)
    [] value.kind \in {"undefined", "function"} -> <<>>

\* The member for a number that is left out when it is 0 (undefined).
JsonOptionalNumber(key, n) == IF n = 0 THEN <<>> ELSE JsonNumber(key, n)

\* SHA-256 truncated to 32 hex digits, taken as collision-free: the digest
\* stands for the text it was computed from.
hashString(value) == [algorithm |-> "SHA-256/128", of |-> value]

Rendered(svg, payload) ==
  [kind |-> "ok", message |-> "", svg |-> svg, payload |-> payload,
   etag |-> hashString(payload)]

RenderThrow(message) ==
  [kind |-> "throw", message |-> message, svg |-> <<>>, payload |-> <<>>,
   etag |-> hashString(<<>>)]

etagPayload(o) ==
  JsonNumber("width", o.width * Unit)
    \o JsonNumber("height", o.height * Unit)
    \o JsonMember("background", o.background)
    \o JsonMember("foreground", o.foreground)
    \o JsonString("text", o.text)
    \o JsonMember("fontFamily", o.fontFamily)
    \o JsonNumber("fontSize", o.fontSize)
    \o JsonNumber("pad", o.pad)
    \o JsonMember("fontWeight", o.fontWeight)
    \o JsonString("align", <<o.align>>)
    \o JsonBoolean("wrap", o.wrap)
    \o JsonNumber("scale", o.scale)
    \o JsonNumber("radius", o.radius)
    \o JsonMember("stroke", o.stroke)
    \o JsonOptionalNumber("strokeWidth", o.strokeWidth)
    \o JsonBoolean("shadow", o.shadow)

renderSvg(options) ==
  LET searchParams == options.searchParams
      width == options.width
      height == options.height
      scale == options.scale
      smaller == Min(width, height) * Unit
      orElse(param, default) == IF param.nan THEN default ELSE param
      rendered(text, fontFamily, fontWeight, fontSize, pad, radius, strokeColor,
               strokeWidth, align, wrap, shadow) ==
        IF strokeColor.kind = "throw" THEN RenderThrow(strokeColor.message)
        ELSE Rendered(
               buildSVG([width |-> width, height |-> height,
                         background |-> options.background,
                         foreground |-> options.foreground,
                         text |-> IF text = <<>> THEN Undefined ELSE Str(text),
                         fontFamily |-> fontFamily, fontSize |-> fontSize,
                         fontWeight |-> fontWeight, pad |-> pad, align |-> align,
                         wrap |-> wrap, scale |-> scale, radius |-> radius * scale,
                         stroke |-> strokeColor, strokeWidth |-> strokeWidth * scale,
                         shadow |-> shadow]),
               etagPayload([width |-> width, height |-> height,
                            background |-> options.background,
                            foreground |-> options.foreground,
                            text |-> text, fontFamily |-> fontFamily,
                            fontSize |-> fontSize, pad |-> pad,
                            fontWeight |-> fontWeight, align |-> align,
                            wrap |-> wrap, scale |-> scale,
                            radius |-> radius * scale, stroke |-> strokeColor,
                            strokeWidth |-> strokeWidth * scale, shadow |-> shadow]))
  IN  rendered(
        clampText(IF Falsy(searchParams.says) THEN <<>> ELSE Trim(searchParams.says)),
        trimmedOrUndefined(searchParams.font),
        trimmedOrUndefined(searchParams.weight),
        clampNumber(orElse(parseFloatSafe(searchParams.size), Num(smaller \div 6)),
                    12 * Unit, 128 * Unit),
        clampNumber(orElse(parseFloatSafe(searchParams.pad), Num(0)), 0, smaller \div 2),
        clampNumber(orElse(parseFloatSafe(searchParams.radius), Num(0)), 0, smaller \div 2),
        IF Falsy(searchParams.stroke) THEN Undefined ELSE parseColor(searchParams.stroke),
        clampNumber(orElse(parseFloatSafe(searchParams.sw), Num(0)), 0, smaller \div 5),
        parseAlign(searchParams.align),
        parseBoolean(searchParams.wrap),
        parseBoolean(searchParams.shadow))

(***************************************************************************)
(* index.ts: fetch.                                                        *)
(***************************************************************************)
\* The characters with codes 32..126 (code 96 is spelled out).
Ascii ==
  <<" ", "!", "\"", "#", "$", "%", "&", "'", "(", ")", "*", "+", ",", "-", ".", "/", "0", "1", "2", "3", "4", "5", "6", "7", "8", "9", ":", ";", "<", "=", ">", "?", "@", "A", "B", "C", "D", "E", "F", "G", "H", "I", "J", "K", "L", "M", "N", "O", "P", "Q", "R", "S", "T", "U", "V", "W", "X", "Y", "Z", "[", "\\", "]", "^", "_", "<grave accent>", "a", "b", "c", "d", "e", "f", "g", "h", "i", "j", "k", "l", "m", "n", "o", "p", "q", "r", "s", "t", "u", "v", "w", "x", "y", "z", "{", "|", "}", "~">>

\* decodeURIComponent for escapes of one byte: %XX with XX below 80 is that
\* ASCII character; a percent sign without two hex digits after it, or a
\* lone byte from 80 on, is malformed.
Malformed == <<"<URIError>">>

RECURSIVE decodeURIComponent(_)
decodeURIComponent(s) ==
  IF s = <<>> THEN <<>>
  ELSE IF Head(s) # "%"
    THEN LET rest == decodeURIComponent(Tail(s))
         IN  IF rest = Malformed THEN Malformed ELSE <<Head(s)>> \o rest
  ELSE IF Len(s) < 3 \/ Lower(s[2]) \notin LowerHexDigits \/ Lower(s[3]) \notin LowerHexDigits THEN Malformed
  ELSE LET byte == 16 * HexVal(Lower(s[2])) + HexVal(Lower(s[3]))
           rest == decodeURIComponent(SubSeq(s, 4, Len(s)))
       IN  IF byte < 32 \/ byte > 126 \/ rest = Malformed THEN Malformed
           ELSE <<Ascii[byte - 31]>> \o rest

\* url.pathname.replace(/^\/+|\/+$/g, '').split('/').filter(Boolean)
pathSegments(pathname) ==
  LET RECURSIVE dropLeft(_)
      dropLeft(p) == IF p # <<>> /\ Head(p) = "/" THEN dropLeft(Tail(p)) ELSE p
      RECURSIVE dropRight(_)
      dropRight(p) ==
        IF p # <<>> /\ p[Len(p)] = "/" THEN dropRight(SubSeq(p, 1, Len(p) - 1)) ELSE p
  IN  SelectSeq(split(dropRight(dropLeft(pathname)), "/"), LAMBDA seg : seg # <<>>)

NoETag == [present |-> FALSE, digest |-> [algorithm |-> "none", of |-> <<>>]]

ETag(digest) == [present |-> TRUE, digest |-> digest]

NoBody == [kind |-> "none", doc |-> <<>>, message |-> ""]

NotRendered == [kind |-> "none", message |-> "", svg |-> <<>>, payload |-> <<>>,
                etag |-> hashString(<<>>)]

\* buildHeaders and new Response: every response carries the CORS header.
Response(status, contentType, cacheControl, etag, body, rendered) ==
  [status |-> status, allowOrigin |-> "*", contentType |-> contentType,
   cacheControl |-> cacheControl, etag |-> etag, body |-> body,
   rendered |-> rendered]

\* message is "" for usageResponse()
usageResponse(message) ==
  Response(400, "text/plain; charset=utf-8", "", NoETag,
           [kind |-> "usage", doc |-> <<>>, message |-> message], NotRendered)

\* request.headers.get('If-None-Match') === etag
ifNoneMatch(request, etag) ==
  request.inm.present /\ request.inm.digest = etag

\* The responses of lines 62-79 with the HEAD test before If-None-Match.
conditionalResponseHeadFirst(request, rendered) ==
  LET headers(status, body) ==
        Response(status, "image/svg+xml; charset=utf-8",
                 "public, max-age=31536000, immutable", ETag(rendered.etag), body, rendered)
  IN  IF request.method = "HEAD" THEN headers(200, NoBody)
      ELSE IF ifNoneMatch(request, rendered.etag) THEN headers(304, NoBody)
      ELSE headers(200, [kind |-> "svg", doc |-> rendered.svg, message |-> ""])

conditionalResponse(request, rendered) ==
  LET headers(status, body) ==
        Response(status, "image/svg+xml; charset=utf-8",
                 "public, max-age=31536000, immutable", ETag(rendered.etag), body, rendered)
  IN  IF ifNoneMatch(request, rendered.etag) THEN headers(304, NoBody)
      ELSE IF request.method = "HEAD" THEN headers(200, NoBody)
      ELSE headers(200, [kind |-> "svg", doc |-> rendered.svg, message |-> ""])

fetch(request) ==
  LET respond(rendered) ==
        IF rendered.kind = "throw" THEN usageResponse(rendered.message)
        ELSE conditionalResponse(request, rendered)
      colored(dims, background, foreground) ==
        IF dims.kind = "throw" THEN usageResponse(dims.message)
        ELSE IF background.kind = "throw" THEN usageResponse(background.message)
        ELSE IF foreground.kind = "throw" THEN usageResponse(foreground.message)
        ELSE respond(renderSvg([width |-> dims.width, height |-> dims.height,
                                background |-> background, foreground |-> foreground,
                                scale |-> parseScale(request.query.scale),
                                searchParams |-> request.query]))
      withBackground(lookup, dims, background) ==
        colored(dims, background,
                IF Len(lookup) >= 3 THEN parseColor(lookup[3])
                ELSE autoContrast(background))
      decoded(lookup) ==
        IF \E i \in 1..Len(lookup) : lookup[i] = Malformed
          THEN usageResponse("URI malformed")
        ELSE IF Len(lookup) = 0 THEN usageResponse("")
        ELSE withBackground(lookup, parseDims(lookup[1]),
                            IF Len(lookup) >= 2 THEN parseColor(lookup[2])
                            ELSE Str(DEFAULT_BACKGROUND))
      segmented(segments) ==
        decoded([i \in 1..Len(segments) |-> decodeURIComponent(segments[i])])
  IN  IF request.method = "OPTIONS"
        THEN Response(204, "", "", NoETag, NoBody, NotRendered)
      ELSE IF request.malformed THEN usageResponse("Invalid URL")
      ELSE segmented(pathSegments(request.pathname))

(***************************************************************************)
(* Requests.  A request is its method, whether its URL parses, the path    *)
(* and the query values of the parsed URL (null for a missing parameter),  *)
(* and its If-None-Match header.                                           *)
(***************************************************************************)
NoRequest == [method |-> "none"]

NoResponse == Response(0, "", "", NoETag, NoBody, NotRendered)

NoEntry ==
  [present |-> FALSE, pathname |-> <<>>, query |-> <<>>, etag |-> hashString(<<>>),
   payload |-> <<>>, svg |-> <<>>]

NoQuery ==
  [says |-> NULL, font |-> NULL, weight |-> NULL, size |-> NULL, pad |-> NULL,
   radius |-> NULL, stroke |-> NULL, sw |-> NULL, shadow |-> NULL, align |-> NULL,
   wrap |-> NULL, scale |-> NULL]

NoHeader == NoETag

OtherETag == [present |-> TRUE, digest |-> [algorithm |-> "other", of |-> <<>>]]

Request(method, malformed, pathname, query, inm) ==
  [method |-> method, malformed |-> malformed, pathname |-> pathname,
   query |-> query, inm |-> inm]

FetchDims ==
  {<<"2", "0", "x", "9">>,
   <<"3", "0", "0", "x", "2", "0", "0">>,
   <<"2", "0", "X", "9">>,
   <<"%", "2", "0", "2", "0", "x", "9">>,
   <<"0", "x", "0">>}

FetchBackgrounds ==
  {<<"r", "e", "d">>,
   <<"t">>,
   <<"z", "z">>,
   <<"c", "o", "n", "s", "t", "r", "u", "c", "t", "o", "r">>,
   <<"r", "g", "b", "(", "%", "2", "2", ")">>,
   <<"%", "z", "z">>,
   <<"h", "s", "l", "(", "0", ",", "0", "%", "2", "5", ",", "8", "0", "%", "2", "5", ")">>}

FetchForegrounds ==
  {<<"w", "h", "i", "t", "e">>,
   <<"c", "o", "n", "s", "t", "r", "u", "c", "t", "o", "r">>,
   <<"r", "g", "b", "(", "%", "3", "C", ")">>,
   <<"z", "z">>,
   <<"%">>}

FetchPaths ==
  {<<>>,
   <<"/">>,
   <<"/", "/">>,
   <<"/", "2", "0", "x", "9", "/", "/", "r", "e", "d", "/">>,
   <<"/", "2", "0", "x", "9", "/", "r", "e", "d", "/", "w", "h", "i", "t", "e", "/", "e", "x", "t", "r", "a">>}
    \cup {<<"/">> \o d : d \in FetchDims}
    \cup {<<"/">> \o d \o <<"/">> \o b : d \in FetchDims, b \in FetchBackgrounds}
    \cup {<<"/">> \o d \o <<"/">> \o b \o <<"/">> \o f :
            d \in FetchDims, b \in FetchBackgrounds, f \in FetchForegrounds}

Captions ==
  {NULL, [i \in 1..(MAX_TEXT_LENGTH + 1) |-> "a"]} \cup
  {<<>>,
   <<"a", "<", "b", ">", "&", "\"", "'">>,
   <<"a", "b", " ", "a", "b", " ", "a", "b">>,
   <<" ", "a", "b", " ">>}

TextQueries ==
  {[NoQuery EXCEPT !.says = says, !.font = font, !.weight = weight, !.wrap = wrap,
                   !.align = align, !.size = size, !.pad = pad] :
     says \in Captions,
     font \in {NULL, <<"a", "\"", "b">>},
     weight \in {NULL, <<"b", "o", "l", "d">>, <<"<", "7", ">">>},
     wrap \in {NULL, <<"1">>},
     align \in {NULL, <<"l", "e", "f", "t">>, <<"R", "I", "G", "H", "T">>},
     size \in {NULL, <<"2", "0">>, <<"a", "b", "c">>, <<"2", "0", "0">>, <<"-", "5">>},
     pad \in {NULL, <<"2", ".", "5">>, <<"9", "9">>, <<"-", "1">>}}

RectQueries ==
  {[NoQuery EXCEPT !.stroke = stroke, !.sw = sw, !.radius = radius,
                   !.shadow = shadow, !.scale = scale] :
     stroke \in {NULL, <<>>, <<"r", "e", "d">>, <<"c", "o", "n", "s", "t", "r", "u", "c", "t", "o", "r">>, <<"z", "z">>, <<"r", "g", "b", "(", "\"", ")">>},
     sw \in {NULL, <<"a", "b", "c">>, <<"-", "1">>} \cup {DecimalString(k) : k \in 0..MaxStroke},
     radius \in {NULL, <<"3">>, <<"9", "9">>, <<"-", "3">>},
     shadow \in {NULL, <<"t", "r", "u", "e">>},
     scale \in {NULL, <<"2">>, <<"2", "x">>}}

FetchRequests ==
  {Request(method, malformed, pathname, NoQuery, inm) :
     method \in {"GET", "HEAD", "POST", "OPTIONS"}, malformed \in {FALSE},
     pathname \in FetchPaths, inm \in {NoHeader, OtherETag}}
    \cup {Request(method, TRUE, <<>>, NoQuery, NoHeader) : method \in {"GET", "OPTIONS"}}
    \cup {Request("GET", FALSE, pathname, query, NoHeader) :
            pathname \in
              {<<"/", "2", "0", "x", "9">>,
              <<"/", "3", "0", "0", "x", "2", "0", "0", "/", "r", "e", "d", "/", "w", "h", "i", "t", "e">>,
              <<"/", "2", "0", "x", "9", "/", "c", "o", "n", "s", "t", "r", "u", "c", "t", "o", "r", "/", "r", "e", "d">>},
            query \in TextQueries \cup RectQueries}

SessionPaths ==
  {<<"/", "2", "0", "x", "9">>,
   <<"/", "2", "0", "x", "9", "/", "r", "e", "d">>,
   <<"/", "2", "0", "x", "9", "/", "z", "z">>}

SessionQueries ==
  {[NoQuery EXCEPT !.stroke = stroke, !.sw = sw] :
     stroke \in {NULL, <<"r", "e", "d">>, <<"c", "o", "n", "s", "t", "r", "u", "c", "t", "o", "r">>},
     sw \in {NULL} \cup {DecimalString(k) : k \in 1..MaxSessionStroke}}

(***************************************************************************)
(* Input spaces of the pure functions.                                     *)
(***************************************************************************)
RECURSIVE SeqsUpTo(_, _)
SeqsUpTo(S, n) ==
  IF n = 0 THEN {<<>>}
  ELSE LET shorter == SeqsUpTo(S, n - 1)
       IN  shorter \cup {Append(s, c) : s \in {t \in shorter : Len(t) = n - 1}, c \in S}

DimDigitStrings == SeqsUpTo({"0", "8", "9"}, MaxDigits)

DimHeights == {<<>>, <<"0">>, <<"3">>, <<"8", "0", "0", "1">>, <<"1", "2", "3", "4", "5">>}

DimSeparators == {<<"x">>, <<"X">>, <<>>, <<"x", "x">>, <<"*">>}

DimPads == {<<>>, <<" ">>, <<"a">>}

DimTokens ==
  {pre \o w \o sep \o h \o post :
     pre \in DimPads, w \in DimDigitStrings, sep \in DimSeparators,
     h \in DimHeights, post \in DimPads}

ColorPads == {<<>>, <<" ">>}

ColorWords ==
  {<<>>,
   <<"t">>,
   <<"T">>,
   <<"t", "r", "a", "n", "s", "p", "a", "r", "e", "n", "t">>,
   <<"T", "r", "a", "n", "s", "p", "a", "r", "e", "n", "t">>,
   <<"t", "r">>,
   <<"r", "e", "d">>,
   <<"R", "E", "D">>,
   <<"y", "e", "l", "l", "o", "w">>,
   <<"w", "h", "i", "t", "e">>,
   <<"b", "l", "a", "c", "k">>,
   <<"n", "a", "v", "y">>,
   <<"r", "e", "d", "s">>,
   <<"r", "e", " ", "d">>,
   <<"c", "o", "n", "s", "t", "r", "u", "c", "t", "o", "r">>,
   <<"C", "o", "n", "s", "t", "r", "u", "c", "t", "o", "r">>,
   <<"_", "_", "p", "r", "o", "t", "o", "_", "_">>,
   <<"t", "o", "s", "t", "r", "i", "n", "g">>,
   <<"z", "z">>,
   <<"f", "f", "0", "0", "0", "0">>,
   <<"#">>}

HexTokens == {<<"#">> \o h : h \in SeqsUpTo({"0", "f", "A", "g"}, MaxHexLen)}

FunctionNames ==
  {<<"r", "g", "b", "(">>,
   <<"r", "g", "b", "a", "(">>,
   <<"h", "s", "l", "(">>,
   <<"h", "s", "l", "a", "(">>,
   <<"R", "G", "B", "(">>,
   <<"r", "g", "b", "x", "(">>,
   <<"h", "s", "l">>}

FunctionalTokens ==
  {name \o inner \o close :
     name \in FunctionNames,
     inner \in SeqsUpTo({"1", ",", " ", ")", "\"", "<"}, MaxArgLen),
     close \in {<<")">>, <<>>}}

ColorTokens ==
  {pre \o core \o post :
     pre \in ColorPads,
     core \in ColorWords \cup HexTokens \cup FunctionalTokens,
     post \in ColorPads}

RgbParts ==
  {<<"0">>,
   <<"1", "2", "8">>,
   <<"2", "5", "5">>,
   <<"3", "0", "0">>,
   <<"-", "5">>,
   <<"5", "0", "%">>,
   <<"1", "0", "0", "%">>,
   <<"x">>,
   <<" ", "2", "0", "0", " ">>}

HueParts ==
  {<<"0">>,
   <<"1", "2", "0">>,
   <<"2", "4", "0">>,
   <<"-", "9", "0">>,
   <<"4", "0", "0">>,
   <<"x">>}

SaturationParts ==
  {<<"0", "%">>,
   <<"5", "0", "%">>,
   <<"1", "0", "0", "%">>,
   <<"5", "0">>,
   <<"x", "%">>}

LightnessParts ==
  {<<"0", "%">>,
   <<"2", "5", "%">>,
   <<"5", "0", "%">>,
   <<"7", "5", "%">>,
   <<"1", "0", "0", "%">>,
   <<"1", "2", "0", "%">>,
   <<"5", "0">>}

ContrastInputs ==
  ColorTokens
    \cup {name \o a \o <<",">> \o b \o <<",">> \o c \o <<")">> :
            name \in {<<"r", "g", "b", "(">>, <<"r", "g", "b", "a", "(">>}, a \in RgbParts, b \in RgbParts, c \in RgbParts}
    \cup {name \o h \o <<",">> \o sat \o <<",">> \o l \o <<")">> :
            name \in {<<"h", "s", "l", "(">>, <<"h", "s", "l", "a", "(">>},
            h \in HueParts, sat \in SaturationParts, l \in LightnessParts}
    \cup {<<"#", "f", "f", "0", "0", "0", "0">>,
   <<"#", "d", "d", "d", "d", "d", "d">>,
   <<"#", "D", "D", "D", "D", "D", "D">>,
   <<"#", "1", "1", "1", "1", "1", "1">>,
   <<"#", "c", "2", "c", "2", "c", "2">>,
   <<"#", "c", "3", "c", "3", "c", "3">>,
   <<"#", "8", "0", "8", "0", "8", "0">>,
   <<"r", "g", "b", "(", "1", ",", "2", ")">>,
   <<"h", "s", "l", "(", "0", ",", "0", "%", ")">>,
   <<"r", "g", "b", "(", "1", "0", "%", ",", "2", "0", "%", ",", "3", "0", "%", ",", "0", ".", "5", ")">>}

WrapOptions ==
  [text : SeqsUpTo({"a", "b", " "}, MaxTextLen),
   maxWidth : 0..MaxWrapWidth,
   fontSize : 1..MaxFontSize,
   wrap : BOOLEAN,
   maxLines : 1..MaxLinesBound]

ScaleInputs == {NULL} \cup SeqsUpTo({"0", "1", "2", "3", " ", "+", "-", "a"}, MaxScaleLen)

(***************************************************************************)
(* The pure functions, called on their own: a call is drawn with its       *)
(* argument, and the step of that function returns.                        *)
(***************************************************************************)
Pending(fn, arg) == [fn |-> fn, arg |-> arg, ret |-> <<>>, done |-> FALSE]

Return(value) == [call EXCEPT !.ret = value, !.done = TRUE]

Idle ==
  /\ req = NoRequest
  /\ resp = NoResponse
  /\ prev = NoEntry
  /\ handlers = <<>>

Returned(fn) == call.fn = fn /\ call.done

InitDims ==
  /\ call \in {Pending("parseDims", value) : value \in DimTokens}
  /\ Idle

CallParseDims ==
  /\ call.fn = "parseDims" /\ ~call.done
  /\ call' = Return(parseDims(call.arg))
  /\ UNCHANGED <<req, resp, prev, handlers>>

SpecDims == InitDims /\ [][CallParseDims]_vars

InitScale ==
  /\ call \in {Pending("parseScale", raw) : raw \in ScaleInputs}
  /\ Idle

CallParseScale ==
  /\ call.fn = "parseScale" /\ ~call.done
  /\ call' = Return(parseScale(call.arg))
  /\ UNCHANGED <<req, resp, prev, handlers>>

SpecScale == InitScale /\ [][CallParseScale]_vars

InitColor ==
  /\ call \in {Pending("parseColor", input) : input \in ColorTokens}
  /\ Idle

CallParseColor ==
  /\ call.fn = "parseColor" /\ ~call.done
  /\ call' = Return(parseColor(call.arg))
  /\ UNCHANGED <<req, resp, prev, handlers>>

SpecColor == InitColor /\ [][CallParseColor]_vars

InitContrast ==
  /\ call \in {Pending("autoContrast", bg) : bg \in ContrastInputs}
  /\ Idle

CallAutoContrast ==
  /\ call.fn = "autoContrast" /\ ~call.done
  /\ call' = Return(autoContrast(Str(call.arg)))
  /\ UNCHANGED <<req, resp, prev, handlers>>

SpecContrast == InitContrast /\ [][CallAutoContrast]_vars

InitWrap ==
  /\ call \in {Pending("wrapText", options) : options \in WrapOptions}
  /\ Idle

CallWrapText ==
  /\ call.fn = "wrapText" /\ ~call.done
  /\ call' = Return(wrapText(call.arg))
  /\ UNCHANGED <<req, resp, prev, handlers>>

SpecWrap == InitWrap /\ [][CallWrapText]_vars

(***************************************************************************)
(* The worker: a request arrives and fetch answers it.  In a session the   *)
(* client sends one request after another, and may put the answer it just  *)
(* got (URL, ETag, and for the record the payload and the document         *)
(* computed for it) in the place of the one it holds.                      *)
(***************************************************************************)
Awaiting == req.method # "none" /\ resp.status = 0

Answered == req.method # "none" /\ resp.status # 0

InitFetch ==
  /\ call = Pending("none", <<>>)
  /\ req \in FetchRequests
  /\ resp = NoResponse
  /\ prev = NoEntry
  /\ handlers = <<>>

Handle ==
  /\ Awaiting
  /\ resp' = fetch(req)
  /\ UNCHANGED <<call, req, prev, handlers>>

SpecFetch == InitFetch /\ [][Handle]_vars

InitSession ==
  /\ call = Pending("none", <<>>)
  /\ Idle

Entry(request, response) ==
  [present |-> TRUE, pathname |-> request.pathname, query |-> request.query,
   etag |-> response.rendered.etag, payload |-> response.rendered.payload,
   svg |-> response.rendered.svg]

\* The client keeps the answer it just got.
Remember ==
  /\ Answered
  /\ resp.etag.present
  /\ prev' = Entry(req, resp)
  /\ UNCHANGED <<call, req, resp, handlers>>

Send(method, pathname, query, inm) ==
  /\ ~Awaiting
  /\ req' = Request(method, FALSE, pathname, query, inm)
  /\ resp' = NoResponse
  /\ UNCHANGED <<call, prev, handlers>>

NextSession ==
  \/ \E method \in {"GET", "HEAD"}, pathname \in SessionPaths, query \in SessionQueries :
       \/ \E inm \in {NoHeader, OtherETag} : Send(method, pathname, query, inm)
       \/ /\ prev.present
          /\ Send(method, pathname, query, ETag(prev.etag))
  \/ Remember
  \/ Handle

SpecSession == InitSession /\ [][NextSession]_vars

(***************************************************************************)
(* Concurrent requests.  fetch is an async function: a call runs without   *)
(* interruption up to `await hashString(etagPayload)` in renderSvg, where   *)
(* it is suspended with its locals (svg, etagPayload) until the digest is  *)
(* there, and then runs to its return.  Calls that are suspended at the    *)
(* same time resume in any order.  The module has no variable that a call  *)
(* writes: all it declares are constants.  overlapped records that another *)
(* call was suspended when this one resumed.                               *)
(***************************************************************************)
InitConcurrent ==
  /\ call = Pending("none", <<>>)
  /\ req = NoRequest
  /\ resp = NoResponse
  /\ prev = NoEntry
  /\ handlers \in
       [1..MaxHandlers ->
          {[pc |-> "start", request |-> Request(method, FALSE, pathname, query, NoHeader),
            svg |-> <<>>, etagPayload |-> <<>>, response |-> NoResponse,
            overlapped |-> FALSE] :
             method \in {"GET", "HEAD"}, pathname \in SessionPaths,
             query \in {NoQuery, [NoQuery EXCEPT !.stroke = <<"r", "e", "d">>, !.sw = <<"1">>]}}]

\* fetch up to the await: it returns (the catch included) or is suspended.
Begin(i) ==
  LET suspended(answer) ==
        IF answer.rendered.kind = "ok"
          THEN [handlers[i] EXCEPT !.pc = "hashing", !.svg = answer.rendered.svg,
                                   !.etagPayload = answer.rendered.payload]
          ELSE [handlers[i] EXCEPT !.pc = "done", !.response = answer]
  IN  /\ handlers[i].pc = "start"
      /\ handlers' = [handlers EXCEPT ![i] = suspended(fetch(handlers[i].request))]
      /\ UNCHANGED <<call, req, resp, prev>>

\* Resume that takes the payload to hash from a call that is suspended now,
\* as it would from a variable shared by all calls.
ResumeShared(i) ==
  /\ handlers[i].pc = "hashing"
  /\ \E j \in DOMAIN handlers :
       /\ handlers[j].pc = "hashing"
       /\ handlers' =
            [handlers EXCEPT
               ![i] = [@ EXCEPT
                  !.pc = "done",
                  !.overlapped = \E k \in DOMAIN handlers \ {i} : handlers[k].pc = "hashing",
                  !.response = conditionalResponse(
                                 handlers[i].request,
                                 Rendered(handlers[i].svg, handlers[j].etagPayload))]]
  /\ UNCHANGED <<call, req, resp, prev>>

\* The digest is there: renderSvg returns { svg, etag } and fetch answers.
Resume(i) ==
  /\ handlers[i].pc = "hashing"
  /\ handlers' =
       [handlers EXCEPT
          ![i] = [@ EXCEPT
             !.pc = "done",
             !.overlapped = \E k \in DOMAIN handlers \ {i} : handlers[k].pc = "hashing",
             !.response = conditionalResponse(
                            handlers[i].request,
                            Rendered(handlers[i].svg, handlers[i].etagPayload))]]
  /\ UNCHANGED <<call, req, resp, prev>>

NextConcurrent ==
  \/ \E i \in DOMAIN handlers : Begin(i)
  \/ \E i \in DOMAIN handlers : Resume(i)

SpecConcurrent == InitConcurrent /\ [][NextConcurrent]_vars

(***************************************************************************)
(* Properties of parseDims.                                                *)
(***************************************************************************)
\* 1-4 decimal digits, a lowercase x, 1-4 decimal digits, and nothing else.
HasDimsShape(t) ==
  \E i \in 1..4, j \in 1..4 :
    /\ Len(t) = i + 1 + j
    /\ t[i + 1] = "x"
    /\ \A k \in (1..i) \cup ((i + 2)..(i + 1 + j)) : t[k] \in Digits

ShapeWidth(t) == DecimalValue(SubSeq(t, 1, CHOOSE i \in 1..4 : t[i + 1] = "x"))

ShapeHeight(t) ==
  DecimalValue(SubSeq(t, (CHOOSE i \in 1..4 : t[i + 1] = "x") + 2, Len(t)))

Into1To8000(n) == IF n < 1 THEN 1 ELSE IF n > 8000 THEN 8000 ELSE n

DimsAnswer(t) ==
  IF HasDimsShape(t)
    THEN /\ call.ret.kind = "ok"
         /\ call.ret.width = Into1To8000(ShapeWidth(t))
         /\ call.ret.height = Into1To8000(ShapeHeight(t))
    ELSE /\ call.ret.kind = "throw"
         /\ call.ret.message = "Invalid dimensions"

\* C1 (as amended): parseDims succeeds exactly on the tokens that, once
\* leading and trailing white space is removed, are 1-4 digits, a lowercase
\* x and 1-4 digits; it then returns both numbers clamped into [1, 8000],
\* and every other token fails with 'Invalid dimensions'.
C1_ParseDimsTrimmedShape ==
  Returned("parseDims") => DimsAnswer(Trim(call.arg))

\* C1 witness: a token padded with a blank is accepted and both of its
\* numbers are clamped (9999 to 8000, 0 to 1).
C1_Witness ==
  /\ Returned("parseDims")
  /\ call.arg = <<" ", "9", "9", "9", "9", "x", "0">>
  /\ call.ret.kind = "ok"
  /\ call.ret.width = 8000
  /\ call.ret.height = 1

\* C1 (as stated): the token itself, with nothing before or after, must have
\* the shape; a token with any extra character fails.
C1_ParseDimsExactShape ==
  Returned("parseDims") => DimsAnswer(call.arg)

(***************************************************************************)
(* Properties of parseScale.                                               *)
(***************************************************************************)
\* The integer prefix of raw is 2: optional blanks, an optional plus sign,
\* any number of zeros, the digit 2, and then no further digit.
IntegerPrefixIsTwo(raw) ==
  /\ raw # NULL
  /\ \E b \in 0..Len(raw), p \in 0..1, z \in 0..Len(raw) :
       LET at == b + p + z + 1
       IN  /\ at <= Len(raw)
           /\ \A k \in 1..b : raw[k] \in WhiteSpace
           /\ p = 1 => raw[b + 1] = "+"
           /\ \A k \in (b + p + 1)..(b + p + z) : raw[k] = "0"
           /\ raw[at] = "2"
           /\ at < Len(raw) => raw[at + 1] \notin Digits

\* C7 (as amended): parseScale returns 2 exactly when the integer that
\* parseInt reads at the start of the raw value is 2 ("2", but also "02",
\* " 2", "+2", "2a"), and 1 for every other input; the result is 1 or 2.
C7_ScaleIntegerPrefix ==
  Returned("parseScale") =>
    /\ call.ret \in {1, 2}
    /\ call.ret = 2 <=> IntegerPrefixIsTwo(call.arg)

\* C7 witness: a value that merely begins with the digit 2 gives scale 2.
C7_Witness ==
  /\ Returned("parseScale")
  /\ call.arg = <<"2", "a">>
  /\ call.ret = 2

\* C7 (as stated): only the literal "2" gives 2; every other input gives 1.
C7_ScaleLiteralTwoOnly ==
  Returned("parseScale") =>
    call.ret = (IF call.arg = <<"2">> THEN 2 ELSE 1)

(***************************************************************************)
(* Properties of parseColor.                                               *)
(***************************************************************************)
IsTransparentForm(n) == n = <<"t">> \/ n = <<"t", "r", "a", "n", "s", "p", "a", "r", "e", "n", "t">>

IsNamedForm(n) == n \in DOMAIN CSS_COLORS

IsHexForm(n) ==
  /\ Len(n) \in {4, 7}
  /\ n[1] = "#"
  /\ \A i \in 2..Len(n) : n[i] \in Digits \cup {"a", "b", "c", "d", "e", "f"}

IsFunctionalForm(n, shortOpen, longOpen) ==
  \E prefix \in {shortOpen, longOpen} :
    /\ startsWith(n, prefix)
    /\ Len(n) >= Len(prefix) + 2
    /\ n[Len(n)] = ")"
    /\ \A i \in (Len(prefix) + 1)..(Len(n) - 1) : n[i] # ")"

IsRgbForm(n) == IsFunctionalForm(n, <<"r", "g", "b", "(">>, <<"r", "g", "b", "a", "(">>)

IsHslForm(n) == IsFunctionalForm(n, <<"h", "s", "l", "(">>, <<"h", "s", "l", "a", "(">>)

IsColorOutput(v) ==
  /\ v.kind = "string"
  /\ \/ v.val = <<"t", "r", "a", "n", "s", "p", "a", "r", "e", "n", "t">>
     \/ IsHexForm(v.val) /\ Len(v.val) = 7
     \/ \E prefix \in {<<"r", "g", "b", "(">>, <<"r", "g", "b", "a", "(">>, <<"h", "s", "l", "(">>, <<"h", "s", "l", "a", "(">>} :
          startsWith(v.val, prefix)

\* C2: parseColor resolves the trimmed, lower-cased token by the precedence
\* transparent, named color, hex, rgb()/rgba(), hsl()/hsla(); its result is
\* 'transparent', a lowercase '#rrggbb' or a string starting with 'rgb(',
\* 'rgba(', 'hsl(' or 'hsla('; a token of none of the five forms, such as
\* a word that is not a key of the named-color table itself, fails with
\* 'Invalid color'.
C2_ParseColorForms ==
  Returned("parseColor") =>
    LET n == toLowerCase(Trim(call.arg))
        v == call.ret
    IN  IF IsTransparentForm(n) THEN v = Str(<<"t", "r", "a", "n", "s", "p", "a", "r", "e", "n", "t">>)
        ELSE IF IsNamedForm(n) THEN v = Str(CSS_COLORS[n]) /\ IsColorOutput(v)
        ELSE IF IsHexForm(n)
          THEN /\ IsColorOutput(v)
               /\ v.val[1] = "#"
               /\ \A i \in 1..6 :
                    v.val[i + 1] = (IF Len(n) = 4 THEN n[1 + (i + 1) \div 2] ELSE n[i + 1])
        ELSE IF IsRgbForm(n)
          THEN IsColorOutput(v) /\ startsWith(v.val, <<"r", "g", "b">>)
        ELSE IF IsHslForm(n)
          THEN IsColorOutput(v) /\ startsWith(v.val, <<"h", "s", "l">>)
        ELSE v = Throw("Invalid color")

(***************************************************************************)
(* Properties of autoContrast.                                             *)
(***************************************************************************)
\* C8: autoContrast returns, for every string and without failing, either
\* '#111111' or '#ffffff': '#111111' for 'transparent' and for a background
\* that cannot be converted to an RGB triplet, and for a convertible one
\* '#111111' exactly when the relative luminance is above 0.55 (so
\* '#ff0000' gives '#ffffff' and '#dddddd' gives '#111111').
C8_AutoContrastTotal ==
  Returned("autoContrast") =>
    LET rgb == colorToRgb(call.arg)
        dark == Str(<<"#", "1", "1", "1", "1", "1", "1">>)
        light == Str(<<"#", "f", "f", "f", "f", "f", "f">>)
    IN  /\ call.ret \in {dark, light}
        /\ call.arg = <<"t", "r", "a", "n", "s", "p", "a", "r", "e", "n", "t">> => call.ret = dark
        /\ call.arg = <<"#", "f", "f", "0", "0", "0", "0">> => call.ret = light
        /\ call.arg = <<"#", "d", "d", "d", "d", "d", "d">> => call.ret = dark
        /\ rgb.kind # "rgb" => call.ret = dark
        /\ rgb.kind = "rgb" =>
             (call.ret = dark <=> Above055(rgbToLuminance(rgb.rgb)))

(***************************************************************************)
(* Properties of wrapText.                                                 *)
(***************************************************************************)
Budget == CharsPerLine(call.arg.maxWidth, call.arg.fontSize)

Packed == packWords(splitWords(Trim(call.arg.text)), <<>>, <<>>, Budget)

\* All the lines from index from (counted from 1) on, joined by one space.
RECURSIVE JoinedFrom(_, _)
JoinedFrom(lines, from) ==
  IF from > Len(lines) THEN <<>>
  ELSE IF from = Len(lines) THEN lines[from]
  ELSE lines[from] \o <<" ">> \o JoinedFrom(lines, from + 1)

Overflows ==
  /\ call.arg.wrap
  /\ Len(Trim(call.arg.text)) > Budget
  /\ Len(Packed) > call.arg.maxLines

\* C9: wrapText returns between 0 and maxLines lines: none exactly when the
\* trimmed text is empty, exactly one when wrap is off and the text is not
\* empty; when greedy packing gives more than maxLines lines, the first
\* maxLines-1 are returned unchanged and the last one is all remaining lines
\* joined by single spaces and collapsed to the character budget.
C9_WrapLineCount ==
  Returned("wrapText") =>
    LET lines == call.ret
        maxLines == call.arg.maxLines
        rest == JoinedFrom(Packed, maxLines)
    IN  /\ Len(lines) \in 0..maxLines
        /\ Len(lines) = 0 <=> Trim(call.arg.text) = <<>>
        /\ (~call.arg.wrap /\ Trim(call.arg.text) # <<>>) => Len(lines) = 1
        /\ Overflows =>
             /\ Len(lines) = maxLines
             /\ \A i \in 1..(maxLines - 1) : lines[i] = Packed[i]
             /\ Len(lines[maxLines]) <= Budget
             /\ Len(rest) <= Budget => lines[maxLines] = rest
             /\ (Len(rest) > Budget /\ Budget <= 3) =>
                  lines[maxLines] = [i \in 1..Budget |-> "."]
             /\ (Len(rest) > Budget /\ Budget > 3) =>
                  lines[maxLines] = SubSeq(rest, 1, Budget - 3) \o <<".", ".", ".">>

\* C9 witness: three packed lines for a maximum of two; the first is kept
\* and the other two are merged and cut to one letter and the marker.
C9_Witness ==
  /\ Returned("wrapText")
  /\ Overflows
  /\ call.arg.maxLines = 2
  /\ Len(Packed) = 3
  /\ call.ret[1] = Packed[1]
  /\ call.ret[2] \in {<<"a", ".", ".", ".">>, <<"b", ".", ".", ".">>}

\* C10: with wrap on, every returned line is at most charsPerLine long, and
\* wrapping a returned line again with the same width, font size and flags
\* returns that one line unchanged.
C10_RewrapIdempotent ==
  (Returned("wrapText") /\ call.arg.wrap) =>
    \A i \in 1..Len(call.ret) :
      /\ Len(call.ret[i]) <= Budget
      /\ wrapText([call.arg EXCEPT !.text = call.ret[i]]) = <<call.ret[i]>>

\* C10 witness: an over-long word was cut into slices of the budget, the
\* first slice is returned as a line and the last line was collapsed to the
\* marker.
C10_Witness ==
  /\ Returned("wrapText")
  /\ Overflows
  /\ Budget = 2
  /\ call.arg.maxLines = 2
  /\ call.arg.text = <<"a", "b", "a", "b", "a">>
  /\ call.ret = << <<"a", "b">>, <<".", ".">> >>

(***************************************************************************)
(* Properties of the documents fetch returns.                              *)
(***************************************************************************)
Entities ==
  {<<"&", "a", "m", "p", ";">>, <<"&", "l", "t", ";">>, <<"&", "g", "t", ";">>,
   <<"&", "q", "u", "o", "t", ";">>, <<"&", "#", "3", "9", ";">>}

\* No reserved character stands for itself: an ampersand only opens one of
\* the five entities escapeXML writes.
IsEscapedText(chars) ==
  \A i \in 1..Len(chars) :
    /\ chars[i] \notin {"<", ">", "\"", "'"}
    /\ chars[i] = "&" =>
         \E e \in Entities :
           /\ i + Len(e) - 1 <= Len(chars)
           /\ SubSeq(chars, i, i + Len(e) - 1) = e

\* C3: every string that buildSVG embeds in a returned document, as an
\* attribute value or as element content, is free of the five reserved
\* characters & < > " ' (other than as the entities of escapeXML), so that
\* nothing a request contains can close an attribute or open an element.
C3_MarkupWellFormed ==
  (Answered /\ resp.body.kind = "svg") =>
    \A k \in 1..Len(resp.body.doc) :
      resp.body.doc[k].ctx \in {"attribute", "content"} =>
        IsEscapedText(resp.body.doc[k].chars)

(***************************************************************************)
(* Properties of the status fetch answers with.                            *)
(***************************************************************************)
IsColorToken(t) ==
  LET n == toLowerCase(Trim(t))
  IN  IsTransparentForm(n) \/ IsNamedForm(n) \/ IsHexForm(n) \/ IsRgbForm(n) \/ IsHslForm(n)

\* Every validation step passes: the URL parses, every path segment
\* decodes, there is a dimensions token of the accepted shape, and the
\* background, the foreground and the stroke color, where given, are
\* color tokens.
PassesValidation(request) ==
  LET segments == pathSegments(request.pathname)
      decoded == [i \in 1..Len(segments) |-> decodeURIComponent(segments[i])]
  IN  /\ ~request.malformed
      /\ \A i \in 1..Len(decoded) : decoded[i] # Malformed
      /\ Len(decoded) >= 1
      /\ HasDimsShape(Trim(decoded[1]))
      /\ Len(decoded) >= 2 => IsColorToken(decoded[2])
      /\ Len(decoded) >= 3 => IsColorToken(decoded[3])
      /\ ~Falsy(request.query.stroke) => IsColorToken(request.query.stroke)

\* C6: every request ends in 204, 200, 304 or 400; a request other than
\* OPTIONS that fails a validation step (empty path, malformed URL or
\* percent-encoding, invalid dimensions, invalid background, foreground or
\* stroke color) is answered 400 with the usage text and without markup or
\* ETag, and every other one 200 or 304 with an ETag.
C6_NoPartialSuccess ==
  Answered =>
    /\ resp.status \in {204, 200, 304, 400}
    /\ req.method # "OPTIONS" =>
         IF PassesValidation(req)
           THEN resp.status \in {200, 304} /\ resp.etag.present
           ELSE /\ resp.status = 400
                /\ resp.body.kind = "usage"
                /\ ~resp.etag.present

(***************************************************************************)
(* Properties of the fingerprint and of conditional requests.              *)
(***************************************************************************)
\* C4: two successful requests whose serialized ETag payloads are equal
\* get byte-identical markup from buildSVG (the payload covers everything
\* that affects the document).
C4_EqualPayloadEqualMarkup ==
  (/\ Answered
   /\ prev.present
   /\ resp.rendered.kind = "ok"
   /\ resp.rendered.payload = prev.payload) =>
    resp.rendered.svg = prev.svg

SameUrl == req.pathname = prev.pathname /\ req.query = prev.query

\* C5: after a GET or HEAD request to a URL succeeded with ETag E, a later
\* GET or HEAD request to the same URL carries the same ETag E whatever its
\* method and headers; it is answered 304 without a body when its
\* If-None-Match equals E, and otherwise 200, with the markup for GET and
\* without a body for HEAD.
C5_ConditionalRequests ==
  (Answered /\ prev.present /\ SameUrl /\ req.method \in {"GET", "HEAD"}) =>
    /\ resp.etag = ETag(prev.etag)
    /\ IF req.inm = ETag(prev.etag)
         THEN resp.status = 304 /\ resp.body = NoBody
         ELSE /\ resp.status = 200
              /\ req.method = "GET" =>
                   resp.body = [kind |-> "svg", doc |-> prev.svg, message |-> ""]
              /\ req.method = "HEAD" => resp.body = NoBody

\* A HEAD request that revalidates with the ETag its URL got before.
C5_Witness ==
  /\ Answered
  /\ prev.present
  /\ SameUrl
  /\ req.method = "HEAD"
  /\ req.inm = ETag(prev.etag)
  /\ resp.status = 304

(***************************************************************************)
(* Properties of concurrent requests.                                      *)
(***************************************************************************)
\* C11: requests handled concurrently do not interfere: whatever the order
\* in which the calls suspended at the hashing step resume, each call
\* answers with the response (status, ETag, body) that fetch gives to its
\* request alone.
C11_NoInterference ==
  \A i \in DOMAIN handlers :
    handlers[i].pc = "done" => handlers[i].response = fetch(handlers[i].request)

\* A call that resumed and answered 200 while another call, for a different
\* document, was suspended at the hashing step and still is.
C11_Witness ==
  /\ DOMAIN handlers # {}
  /\ \E i, j \in DOMAIN handlers :
       /\ handlers[i].pc = "done" /\ handlers[i].overlapped
       /\ handlers[i].response.status = 200
       /\ handlers[j].pc = "hashing"
       /\ handlers[j].etagPayload # handlers[i].etagPayload

(***************************************************************************)
(* Properties of the numbers renderSvg resolves.  They are read from the   *)
(* fingerprint payload, which holds what buildSVG is handed; lengths are   *)
(* in 1/Unit, and the radius and the stroke width are there times scale.   *)
(***************************************************************************)
HasMember(payload, key) == \E k \in 1..Len(payload) : payload[k].key = key

Member(payload, key) == payload[CHOOSE k \in 1..Len(payload) : payload[k].key = key]

Within(value, min, max) == IF value < min THEN min ELSE IF value > max THEN max ELSE value

\* The number a query value stands for, in 1/Unit, or the default.
Resolved(value, default) ==
  IF parseFloatSafe(value).nan THEN default ELSE parseFloatSafe(value).val

StrokeEmitted(doc) == \E k \in 1..Len(doc) : doc[k] = Markup(" stroke=\"")

\* C12: for every request that is rendered, whatever its query values are,
\* the font size is the given size, or min(width, height)/6 when none is
\* given, clamped into [12, 128]; the padding and the unscaled radius are
\* the given values, or 0, clamped into [0, min(width, height)/2]; the
\* unscaled stroke width is the given value, or 0, clamped into
\* [0, min(width, height)/5]; and the rectangle carries a stroke only when
\* a stroke color is given and the stroke width is above 0.
C12_NumbersInRange ==
  (Answered /\ resp.rendered.kind = "ok") =>
    LET payload == resp.rendered.payload
        smaller == Min(Member(payload, "width").num, Member(payload, "height").num)
        scale == Member(payload, "scale").num
        strokeWidth == IF HasMember(payload, "strokeWidth")
                         THEN Member(payload, "strokeWidth").num ELSE 0
    IN  /\ Member(payload, "fontSize").num \in (12 * Unit)..(128 * Unit)
        /\ Member(payload, "fontSize").num =
             Within(Resolved(req.query.size, smaller \div 6), 12 * Unit, 128 * Unit)
        /\ Member(payload, "pad").num \in 0..(smaller \div 2)
        /\ Member(payload, "pad").num = Within(Resolved(req.query.pad, 0), 0, smaller \div 2)
        /\ Member(payload, "radius").num \in 0..(scale * (smaller \div 2))
        /\ Member(payload, "radius").num =
             scale * Within(Resolved(req.query.radius, 0), 0, smaller \div 2)
        /\ strokeWidth \in 0..(scale * (smaller \div 5))
        /\ strokeWidth = scale * Within(Resolved(req.query.sw, 0), 0, smaller \div 5)
        /\ StrokeEmitted(resp.rendered.svg) => (~Falsy(req.query.stroke) /\ strokeWidth > 0)

\* A 20x9 image asked for with stroke width 2: the width is cut to 9/5 and
\* the stroke is written.
C12_Witness ==
  /\ Answered
  /\ resp.rendered.kind = "ok"
  /\ req.query.sw = <<"2">>
  /\ req.query.radius = <<"-", "3">>
  /\ StrokeEmitted(resp.rendered.svg)
  /\ Member(resp.rendered.payload, "strokeWidth").num = (9 * Unit) \div 5
  /\ Member(resp.rendered.payload, "radius").num = 0

====
